---- MODULE Spec2Model ----
(***************************************************************************)
(* Smart Health Surveillance (my_analysis.py): the per-report rule engine  *)
(* score_and_infer, the location aggregator aggregate_location_patterns,   *)
(* the global verdict overall_risk_from_reports and the /analyze handler.  *)
(*                                                                         *)
(* Python str values are sequences of one-character strings, so that       *)
(* str.lower, the substring test `in` and the ordering used by sorted()    *)
(* are computed and not assumed.  Python floats are fixed-point integers   *)
(* in thousandths (6.5 is 6500); every threshold and every input of the    *)
(* model is a multiple of 0.001, so the comparisons are exact.             *)
(***************************************************************************)
EXTENDS Integers, Sequences, FiniteSets, TLC

VARIABLES pc, report, result, pair, pairResult, body, response

vars == <<pc, report, result, pair, pairResult, body, response>>

-----------------------------------------------------------------------------
(* Characters in code-point order: str.lower and sorted() depend on it.    *)
Ascii ==
  <<" ", "(", ")", ",", ".", "/", ";",
    "0", "1", "2", "3", "4", "5", "6", "7", "8", "9",
    "A", "B", "C", "D", "E", "F", "G", "H", "I", "J", "K", "L", "M",
    "N", "O", "P", "Q", "R", "S", "T", "U", "V", "W", "X", "Y", "Z",
    "a", "b", "c", "d", "e", "f", "g", "h", "i", "j", "k", "l", "m",
    "n", "o", "p", "q", "r", "s", "t", "u", "v", "w", "x", "y", "z">>

Chars == {Ascii[i] : i \in 1..Len(Ascii)}

\* ord[c], as the rank of c among the characters of the model
ord == [c \in Chars |-> CHOOSE i \in 1..Len(Ascii) : Ascii[i] = c]

\* c.lower() for one character
lower_char ==
  [c \in Chars |->
     IF ord[c] >= ord["A"] /\ ord[c] <= ord["Z"]
       THEN Ascii[ord[c] + (ord["a"] - ord["A"])]
       ELSE c]

\* str.lower()
lower(s) == [i \in 1..Len(s) |-> lower_char[s[i]]]

\* key in text (substring test)
contains(key, text) ==
  \E i \in 0..(Len(text) - Len(key)) : SubSeq(text, i + 1, i + Len(key)) = key

\* a < b for str (lexicographic by code point)
str_lt(a, b) ==
  \E i \in 1..(Len(b)) :
    /\ \A j \in 1..(i - 1) : j <= Len(a) /\ a[j] = b[j]
    /\ \/ Len(a) = i - 1
       \/ Len(a) >= i /\ ord[a[i]] < ord[b[i]]

-----------------------------------------------------------------------------
(* String constants of the program.                                        *)
KW_fever == <<"f", "e", "v", "e", "r">>
KW_diarrhea == <<"d", "i", "a", "r", "r", "h", "e", "a">>
KW_vomit == <<"v", "o", "m", "i", "t">>
KW_vomiting == <<"v", "o", "m", "i", "t", "i", "n", "g">>
KW_jaundice == <<"j", "a", "u", "n", "d", "i", "c", "e">>
KW_abdominal_pain == <<"a", "b", "d", "o", "m", "i", "n", "a", "l", " ", "p", "a", "i", "n">>
KW_stomach_pain == <<"s", "t", "o", "m", "a", "c", "h", " ", "p", "a", "i", "n">>
KW_nausea == <<"n", "a", "u", "s", "e", "a">>
ISS_pH == <<"U", "n", "s", "a", "f", "e", " ", "p", "H">>
ISS_turb_very_high == <<"V", "e", "r", "y", " ", "h", "i", "g", "h", " ", "t", "u", "r", "b", "i", "d", "i", "t", "y">>
ISS_turb_high == <<"H", "i", "g", "h", " ", "t", "u", "r", "b", "i", "d", "i", "t", "y">>
ISS_turb_ideal == <<"T", "u", "r", "b", "i", "d", "i", "t", "y", " ", "a", "b", "o", "v", "e", " ", "i", "d", "e", "a", "l">>
ISS_ecoli == <<"E", ".", " ", "c", "o", "l", "i", " ", "p", "r", "e", "s", "e", "n", "t">>
ISS_coliforms == <<"F", "e", "c", "a", "l", " ", "c", "o", "n", "t", "a", "m", "i", "n", "a", "t", "i", "o", "n", " ", "(", "c", "o", "l", "i", "f", "o", "r", "m", "s", ")">>
ISS_hpc == <<"H", "i", "g", "h", " ", "H", "P", "C">>
ISS_arsenic == <<"A", "r", "s", "e", "n", "i", "c", " ", "a", "b", "o", "v", "e", " ", "s", "a", "f", "e", " ", "l", "i", "m", "i", "t">>
ISS_fluoride == <<"H", "i", "g", "h", " ", "f", "l", "u", "o", "r", "i", "d", "e">>
ISS_nitrate == <<"H", "i", "g", "h", " ", "n", "i", "t", "r", "a", "t", "e">>
ISS_lead == <<"L", "e", "a", "d", " ", "a", "b", "o", "v", "e", " ", "s", "a", "f", "e", " ", "l", "i", "m", "i", "t">>
STR_Unknown == <<"U", "n", "k", "n", "o", "w", "n">>
STR_null == <<"n", "u", "l", "l">>

SYMPTOM_KEYS ==
  <<KW_fever, KW_diarrhea, KW_vomit, KW_vomiting, KW_jaundice,
    KW_abdominal_pain, KW_stomach_pain, KW_nausea>>

(* SAFE, in thousandths.                                                   *)
pH_min == 6500
pH_max == 8500
turbidity_ideal == 1000
turbidity_max == 5000
turbidity_very_high == 30000
hpc_max == 500000
arsenic_max == 10
fluoride_max == 1500
nitrate_max == 45000
lead_max == 10
pH_default == 7000

-----------------------------------------------------------------------------
(* JSON values of a report: null (also an absent key, as report.get gives  *)
(* None for both), a string, or a number.                                  *)
JNull == [tag |-> "null", s |-> <<>>, n |-> 0]
JStr(t) == [tag |-> "string", s |-> t, n |-> 0]
JNum(x) == [tag |-> "number", s |-> <<>>, n |-> x]

\* (v or dflt) for a value that is None or a str
or_str(v, dflt) == IF v.tag = "string" /\ v.s # <<>> THEN v.s ELSE dflt

is_digits(s) ==
  /\ s # <<>>
  /\ \A i \in 1..Len(s) : ord[s[i]] >= ord["0"] /\ ord[s[i]] <= ord["9"]

RECURSIVE digits_value(_)
digits_value(s) ==
  IF s = <<>> THEN 0
  ELSE 10 * digits_value(SubSeq(s, 1, Len(s) - 1)) + (ord[s[Len(s)]] - ord["0"])

\* float(s) of a str: a run of decimal digits parses, any other text of the
\* model raises ValueError (reported as <<FALSE, 0>>)
float_of_str(s) ==
  IF is_digits(s) THEN <<TRUE, 1000 * digits_value(s)>> ELSE <<FALSE, 0>>

_get_float(v, default) ==
  IF v.tag = "null" THEN default
  ELSE IF v.tag = "string"
    THEN IF v.s = <<>> \/ v.s = STR_null THEN default
         ELSE IF float_of_str(v.s)[1] THEN float_of_str(v.s)[2] ELSE default
  ELSE v.n

-----------------------------------------------------------------------------
(* score_and_infer: the conditions of the rules.                           *)
fever_fires(stext) == contains(KW_fever, stext)
diarrhea_fires(stext) == contains(KW_diarrhea, stext)
vomit_fires(stext) ==
  contains(KW_vomit, stext) \/ contains(KW_vomiting, stext) \/ contains(KW_nausea, stext)
jaundice_fires(stext) == contains(KW_jaundice, stext)
pain_fires(stext) ==
  contains(KW_abdominal_pain, stext) \/ contains(KW_stomach_pain, stext)

\* variant: the bounds themselves count as unsafe
pH_fires_inclusive(pH) == pH <= pH_min \/ pH >= pH_max

pH_fires(pH) == pH < pH_min \/ pH > pH_max

\* which branch of the turbidity if/elif/elif is taken: 3 (> 30), 2 (> max),
\* 1 (> ideal), 0 (none)
turbidity_branch(turb) ==
  IF turb > turbidity_very_high THEN 3
  ELSE IF turb > turbidity_max THEN 2
  ELSE IF turb > turbidity_ideal THEN 1
  ELSE 0

ecoli_fires(ecoli) == ecoli > 0
coliforms_fires(coliforms) == coliforms > 0
hpc_fires(hpc) == hpc > hpc_max
arsenic_fires(arsenic) == arsenic > arsenic_max
fluoride_fires(fluoride) == fluoride > fluoride_max
nitrate_fires(nitrate) == nitrate > nitrate_max
lead_fires(lead) == lead > lead_max

(* The rules act on the locals score, issues, diseases.                    *)
fire(acc, delta, iss, dis) ==
  [score |-> acc.score + delta,
   issues |-> acc.issues \o iss,
   diseases |-> acc.diseases \o dis]

\* variant: the symptom checks chained with elif, only the first match scores
symptom_rules_elif(acc, stext) ==
  [acc EXCEPT !.score =
     @ + (IF fever_fires(stext) THEN 2
          ELSE IF diarrhea_fires(stext) THEN 3
          ELSE IF vomit_fires(stext) THEN 2
          ELSE IF jaundice_fires(stext) THEN 2
          ELSE IF pain_fires(stext) THEN 1
          ELSE 0)]

symptom_rules(acc, stext) ==
  [acc EXCEPT !.score =
     @ + (IF fever_fires(stext) THEN 2 ELSE 0)
       + (IF diarrhea_fires(stext) THEN 3 ELSE 0)
       + (IF vomit_fires(stext) THEN 2 ELSE 0)
       + (IF jaundice_fires(stext) THEN 2 ELSE 0)
       + (IF pain_fires(stext) THEN 1 ELSE 0)]

pH_rule(acc, pH) ==
  IF pH_fires(pH)
    THEN fire(acc, 2, <<ISS_pH>>, <<"Metal leaching / gastritis / skin irritation">>)
    ELSE acc

\* variant: three independent ifs in place of the if/elif/elif
turbidity_rule_independent(acc, turb) ==
  LET b1 == IF turb > turbidity_very_high
              THEN fire(acc, 4, <<ISS_turb_very_high>>,
                        <<"Pathogens likely; chlorination failure">>)
              ELSE acc
      b2 == IF turb > turbidity_max
              THEN fire(b1, 2, <<ISS_turb_high>>,
                        <<"Pathogens may survive; diarrhea risk">>)
              ELSE b1
  IN IF turb > turbidity_ideal THEN fire(b2, 0, <<ISS_turb_ideal>>, <<>>) ELSE b2

turbidity_rule(acc, turb) ==
  IF turbidity_branch(turb) = 3
    THEN fire(acc, 4, <<ISS_turb_very_high>>, <<"Pathogens likely; chlorination failure">>)
  ELSE IF turbidity_branch(turb) = 2
    THEN fire(acc, 2, <<ISS_turb_high>>, <<"Pathogens may survive; diarrhea risk">>)
  ELSE IF turbidity_branch(turb) = 1
    THEN fire(acc, 0, <<ISS_turb_ideal>>, <<>>)
  ELSE acc

ecoli_rule(acc, ecoli) ==
  IF ecoli_fires(ecoli)
    THEN fire(acc, 5, <<ISS_ecoli>>, <<"Diarrhea", "Cholera", "Typhoid">>)
    ELSE acc

coliforms_rule(acc, coliforms) ==
  IF coliforms_fires(coliforms)
    THEN fire(acc, 3, <<ISS_coliforms>>, <<"Gastroenteritis", "Hepatitis A">>)
    ELSE acc

hpc_rule(acc, hpc) ==
  IF hpc_fires(hpc)
    THEN fire(acc, 2, <<ISS_hpc>>, <<"Opportunistic infections">>)
    ELSE acc

arsenic_rule(acc, arsenic) ==
  IF arsenic_fires(arsenic)
    THEN fire(acc, 4, <<ISS_arsenic>>, <<"Arsenicosis / cancer risk">>)
    ELSE acc

fluoride_rule(acc, fluoride) ==
  IF fluoride_fires(fluoride)
    THEN fire(acc, 2, <<ISS_fluoride>>, <<"Dental/Skeletal fluorosis">>)
    ELSE acc

nitrate_rule(acc, nitrate) ==
  IF nitrate_fires(nitrate)
    THEN fire(acc, 3, <<ISS_nitrate>>, <<"Methemoglobinemia (Blue Baby)">>)
    ELSE acc

lead_rule(acc, lead) ==
  IF lead_fires(lead)
    THEN fire(acc, 4, <<ISS_lead>>, <<"Neurotoxicity / developmental issues">>)
    ELSE acc

\* d in diseases
in_list(d, list) == \E i \in 1..Len(list) : list[i] = d

\* if d not in diseases: diseases.append(d)
append_if_absent(list, d) == IF in_list(d, list) THEN list ELSE Append(list, d)

\* variant: the diarrhea coupling ignores turbidity
coupling_rules_no_turbidity(acc, stext, ecoli, coliforms, turb) ==
  LET d1 == IF diarrhea_fires(stext) /\ (ecoli > 0 \/ coliforms > 0)
              THEN append_if_absent(
                     append_if_absent(
                       append_if_absent(acc.diseases, "Cholera"),
                       "Typhoid"),
                     "Gastroenteritis")
              ELSE acc.diseases
      d2 == IF jaundice_fires(stext) /\ (coliforms > 0 \/ ecoli > 0)
              THEN append_if_absent(d1, "Hepatitis A")
              ELSE d1
  IN [acc EXCEPT !.diseases = d2]

coupling_rules(acc, stext, ecoli, coliforms, turb) ==
  LET d1 == IF diarrhea_fires(stext)
               /\ (ecoli > 0 \/ coliforms > 0 \/ turb > turbidity_max)
              THEN append_if_absent(
                     append_if_absent(
                       append_if_absent(acc.diseases, "Cholera"),
                       "Typhoid"),
                     "Gastroenteritis")
              ELSE acc.diseases
      d2 == IF jaundice_fires(stext) /\ (coliforms > 0 \/ ecoli > 0)
              THEN append_if_absent(d1, "Hepatitis A")
              ELSE d1
  IN [acc EXCEPT !.diseases = d2]

\* variant: High only above 6
risk_bucket_strict(score) ==
  IF score > 6 THEN "High"
  ELSE IF score >= 3 THEN "Medium"
  ELSE "Low"

\* Risk buckets
risk_bucket(score) ==
  IF score >= 6 THEN "High"
  ELSE IF score >= 3 THEN "Medium"
  ELSE "Low"

\* Deduplicate diseases while preserving order
RECURSIVE dedup_from(_, _, _)
dedup_from(diseases, seen, diseases_unique) ==
  IF diseases = <<>> THEN diseases_unique
  ELSE IF Head(diseases) \in seen
    THEN dedup_from(Tail(diseases), seen, diseases_unique)
    ELSE dedup_from(Tail(diseases), seen \cup {Head(diseases)},
                    Append(diseases_unique, Head(diseases)))

\* variant: each new disease is put at the front of diseases_unique
RECURSIVE dedup_prepend_from(_, _, _)
dedup_prepend_from(diseases, seen, diseases_unique) ==
  IF diseases = <<>> THEN diseases_unique
  ELSE IF Head(diseases) \in seen
    THEN dedup_prepend_from(Tail(diseases), seen, diseases_unique)
    ELSE dedup_prepend_from(Tail(diseases), seen \cup {Head(diseases)},
                            <<Head(diseases)>> \o diseases_unique)

dedup_prepend(diseases) == dedup_prepend_from(diseases, {}, <<>>)

dedup(diseases) == dedup_from(diseases, {}, <<>>)

\* the coerced inputs of a report (lines 41-52)
stext_of(r) == lower(or_str(r.symptoms, <<>>))
loc_of(r) == or_str(r.location, STR_Unknown)
pH_of(r) == _get_float(r.pH, pH_default)
turb_of(r) == _get_float(r.turbidity, 0)
ecoli_of(r) == _get_float(r.bacteria_count, 0)
coliforms_of(r) == _get_float(r.coliforms, 0)
hpc_of(r) == _get_float(r.hpc, 0)
arsenic_of(r) == _get_float(r.arsenic, 0)
fluoride_of(r) == _get_float(r.fluoride, 0)
nitrate_of(r) == _get_float(r.nitrate, 0)
lead_of(r) == _get_float(r.lead, 0)

\* score, issues, diseases after the symptom and water-quality rules
threshold_rules(r) ==
  LET a0 == [score |-> 0, issues |-> <<>>, diseases |-> <<>>]
      a1 == symptom_rules(a0, stext_of(r))
      a2 == pH_rule(a1, pH_of(r))
      a3 == turbidity_rule(a2, turb_of(r))
      a4 == ecoli_rule(a3, ecoli_of(r))
      a5 == coliforms_rule(a4, coliforms_of(r))
      a6 == hpc_rule(a5, hpc_of(r))
      a7 == arsenic_rule(a6, arsenic_of(r))
      a8 == fluoride_rule(a7, fluoride_of(r))
      a9 == nitrate_rule(a8, nitrate_of(r))
  IN lead_rule(a9, lead_of(r))

\* score, issues, diseases after the coupling rules
all_rules(r) ==
  coupling_rules(threshold_rules(r), stext_of(r), ecoli_of(r), coliforms_of(r), turb_of(r))

score_and_infer(r) ==
  LET acc == all_rules(r)
  IN [location |-> loc_of(r),
      score |-> acc.score,
      risk_level |-> risk_bucket(acc.score),
      issues_found |-> acc.issues,
      likely_diseases |-> dedup(acc.diseases)]

-----------------------------------------------------------------------------
(* collections.Counter: the <<key, count>> pairs in insertion order.       *)
counter_has(c, k) == \E i \in 1..Len(c) : c[i][1] = k

\* variant: c[k] = 1
counter_add_reset(c, k) ==
  IF counter_has(c, k)
    THEN [i \in 1..Len(c) |-> IF c[i][1] = k THEN <<k, 1>> ELSE c[i]]
    ELSE Append(c, <<k, 1>>)

\* c[k] += 1
counter_add(c, k) ==
  IF counter_has(c, k)
    THEN [i \in 1..Len(c) |-> IF c[i][1] = k THEN <<k, c[i][2] + 1>> ELSE c[i]]
    ELSE Append(c, <<k, 1>>)

\* for k in keys: c[k] += 1
RECURSIVE counter_add_all(_, _)
counter_add_all(c, keys) ==
  IF keys = <<>> THEN c
  ELSE counter_add_all(counter_add(c, Head(keys)), Tail(keys))

\* c[k] of a Counter (0 for a missing key)
counter_get(c, k) ==
  IF counter_has(c, k) THEN c[CHOOSE i \in 1..Len(c) : c[i][1] = k][2] ELSE 0

\* dict(c)
dict_of(c) == [k \in {c[i][1] : i \in 1..Len(c)} |-> counter_get(c, k)]

remove_at(c, i) == SubSeq(c, 1, i - 1) \o SubSeq(c, i + 1, Len(c))

\* variant: among equal counts the key inserted last comes first
RECURSIVE most_common_last(_, _)
most_common_last(c, n) ==
  IF n = 0 \/ c = <<>> THEN <<>>
  ELSE LET best == CHOOSE i \in 1..Len(c) :
                     /\ \A j \in 1..Len(c) : c[j][2] <= c[i][2]
                     /\ \A j \in (i + 1)..Len(c) : c[j][2] < c[i][2]
       IN <<c[best]>> \o most_common_last(remove_at(c, best), n - 1)

\* Counter.most_common(n): heapq.nlargest on the count, which is
\* sorted(items, key=count, reverse=True)[:n], stable for equal counts
RECURSIVE most_common(_, _)
most_common(c, n) ==
  IF n = 0 \/ c = <<>> THEN <<>>
  ELSE LET best == CHOOSE i \in 1..Len(c) :
                     /\ \A j \in 1..Len(c) : c[j][2] <= c[i][2]
                     /\ \A j \in 1..(i - 1) : c[j][2] < c[i][2]
       IN <<c[best]>> \o most_common(remove_at(c, best), n - 1)

\* [k for k, _ in pairs]
keys_of(pairs) == [i \in 1..Len(pairs) |-> pairs[i][1]]

(* defaultdict(Counter): a function on the keys touched so far.            *)
dd_get(d, k) == IF k \in DOMAIN d THEN d[k] ELSE <<>>
dd_put(d, k, v) == [x \in (DOMAIN d) \cup {k} |-> IF x = k THEN v ELSE d[x]]

\* {**r, **result}
merge(r, res) ==
  [k \in (DOMAIN r) \cup (DOMAIN res) |-> IF k \in DOMAIN res THEN res[k] ELSE r[k]]

\* the SYMPTOM_KEYS found in stext, in list order
RECURSIVE keys_in(_, _)
keys_in(keys, stext) ==
  IF keys = <<>> THEN <<>>
  ELSE (IF contains(Head(keys), stext) THEN <<Head(keys)>> ELSE <<>>)
         \o keys_in(Tail(keys), stext)

\* the aggregation of one scored report (lines 167-174)
aggregate_result(st, r, loc, res) ==
  [loc_symptoms |-> st.loc_symptoms,
   per_report |-> Append(st.per_report, merge(r, res)),
   loc_diseases |-> IF res.likely_diseases = <<>> THEN st.loc_diseases
                    ELSE dd_put(st.loc_diseases, loc,
                           counter_add_all(dd_get(st.loc_diseases, loc),
                                           res.likely_diseases)),
   loc_risk |-> dd_put(st.loc_risk, loc,
                  counter_add(dd_get(st.loc_risk, loc), res.risk_level)),
   loc_issues |-> IF res.issues_found = <<>> THEN st.loc_issues
                  ELSE dd_put(st.loc_issues, loc,
                         counter_add_all(dd_get(st.loc_issues, loc),
                                         res.issues_found))]

\* the symptom count of one report (lines 160-163)
count_symptoms(st, loc, found) ==
  IF found = <<>> THEN st
  ELSE [st EXCEPT !.loc_symptoms =
          dd_put(@, loc, counter_add_all(dd_get(@, loc), found))]

\* one iteration of `for r in reports`
aggregate_step(st, r) ==
  aggregate_result(
    count_symptoms(st, or_str(r.location, STR_Unknown),
                   keys_in(SYMPTOM_KEYS, lower(or_str(r.symptoms, <<>>)))),
    r, or_str(r.location, STR_Unknown), score_and_infer(r))

RECURSIVE aggregate_loop(_, _)
aggregate_loop(st, reports) ==
  IF reports = <<>> THEN st
  ELSE aggregate_loop(aggregate_step(st, Head(reports)), Tail(reports))

\* set([pr["location"] for pr in per_report] or ["Unknown"])
summary_locations(per_report) ==
  IF per_report = <<>> THEN {STR_Unknown}
  ELSE {per_report[i].location : i \in 1..Len(per_report)}

\* summarize per location (lines 177-186)
summarize(st) ==
  [per_report |-> st.per_report,
   location_summary |->
     [loc \in summary_locations(st.per_report) |->
       [symptom_trends |-> dict_of(dd_get(st.loc_symptoms, loc)),
        risk_counts |-> dict_of(dd_get(st.loc_risk, loc)),
        top_issues |-> keys_of(most_common(dd_get(st.loc_issues, loc), 5)),
        likely_diseases_top |->
          keys_of(most_common(dd_get(st.loc_diseases, loc), 5))]]]

aggregate_location_patterns(reports) ==
  summarize(aggregate_loop([loc_symptoms |-> <<>>, loc_diseases |-> <<>>,
                            loc_risk |-> <<>>, loc_issues |-> <<>>,
                            per_report |-> <<>>], reports))

\* Counter([r["risk_level"] for r in per_report])[tier]
tier_count(per_report, tier) ==
  Cardinality({i \in 1..Len(per_report) : per_report[i].risk_level = tier})

\* variant: the threshold is 0.34
overall_risk_from_reports_34(per_report) ==
  IF per_report = <<>> THEN "No Data"
  ELSE IF 100 * tier_count(per_report, "High") >= 34 * Len(per_report) THEN "High"
  ELSE IF 100 * tier_count(per_report, "Medium") >= 34 * Len(per_report) THEN "Medium"
  ELSE "Low"

\* counts/total >= 0.33 compared exactly: 100 * counts >= 33 * total
overall_risk_from_reports(per_report) ==
  IF per_report = <<>> THEN "No Data"
  ELSE IF 100 * tier_count(per_report, "High") >= 33 * Len(per_report) THEN "High"
  ELSE IF 100 * tier_count(per_report, "Medium") >= 33 * Len(per_report) THEN "Medium"
  ELSE "Low"

severe_flags == {ISS_ecoli, ISS_arsenic, ISS_lead, ISS_coliforms}

\* rc.get("High", 0)
dict_get(d, k, dflt) == IF k \in DOMAIN d THEN d[k] ELSE dflt

\* variant: the severe flags are compared without lower-casing them
is_high_risk_no_lower(summary) ==
  IF dict_get(summary.risk_counts, "High", 0) >= 2 THEN TRUE
  ELSE \E iss \in severe_flags :
         \E i \in 1..Len(summary.top_issues) : lower(summary.top_issues[i]) = iss

\* the if/else of the high-risk loop for one location
is_high_risk(summary) ==
  IF dict_get(summary.risk_counts, "High", 0) >= 2 THEN TRUE
  ELSE \E iss \in {lower(f) : f \in severe_flags} :
         \E i \in 1..Len(summary.top_issues) : lower(summary.top_issues[i]) = iss

\* sorted(S) for a set of str
RECURSIVE sorted(_)
sorted(S) ==
  IF S = {} THEN <<>>
  ELSE LET m == CHOOSE x \in S : \A y \in S \ {x} : str_lt(x, y)
       IN <<m>> \o sorted(S \ {m})

\* the response built from the aggregation (lines 229-249)
respond(agg) ==
  [status |-> 200,
   total_reports |-> Len(agg.per_report),
   overall_risk |-> overall_risk_from_reports(agg.per_report),
   per_report |-> agg.per_report,
   location_summary |-> agg.location_summary,
   high_risk_locations |->
     sorted({loc \in DOMAIN agg.location_summary :
               is_high_risk(agg.location_summary[loc])})]

\* the /analyze handler on a request body
analyze(b) ==
  IF b.kind = "object"
    THEN [status |-> 400, error |-> "Expecting a JSON array of reports"]
    ELSE respond(aggregate_location_patterns(IF b.kind = "array" THEN b.items ELSE <<>>))

-----------------------------------------------------------------------------
(* Inputs.                                                                 *)
MaxReports == 3
MaxViolations == 2

TXT_fever == <<"F", "e", "v", "e", "r">>
TXT_diarrhea_fever == <<"s", "e", "v", "e", "r", "e", " ", "d", "i", "a", "r", "r", "h", "e", "a", " ", "a", "n", "d", " ", "f", "e", "v", "e", "r">>
TXT_vomiting == <<"V", "o", "m", "i", "t", "i", "n", "g">>
TXT_pain_nausea == <<"A", "b", "d", "o", "m", "i", "n", "a", "l", " ", "p", "a", "i", "n", ",", " ", "n", "a", "u", "s", "e", "a">>
TXT_diarrhea_jaundice == <<"D", "i", "a", "r", "r", "h", "e", "a", ",", " ", "J", "A", "U", "N", "D", "I", "C", "E">>
TXT_stomach_pain == <<"s", "t", "o", "m", "a", "c", "h", " ", "p", "a", "i", "n">>
TXT_cough == <<"c", "o", "u", "g", "h">>
STR_abc == <<"a", "b", "c">>
STR_40 == <<"4", "0">>
LOC_A == <<"V", "i", "l", "l", "a", "g", "e", " ", "A">>
LOC_b == <<"v", "i", "l", "l", "a", "g", "e", " ", "b">>
TXT_all == <<"F", "e", "v", "e", "r", ",", " ", "D", "i", "a", "r", "r", "h", "e", "a", ",", " ", "V", "o", "m", "i", "t", "i", "n", "g", ",", " ", "j", "a", "u", "n", "d", "i", "c", "e", ",", " ", "s", "t", "o", "m", "a", "c", "h", " ", "p", "a", "i", "n">>
TXT_three == <<"F", "e", "v", "e", "r", ",", " ", "D", "i", "a", "r", "r", "h", "e", "a", ",", " ", "V", "o", "m", "i", "t", "i", "n", "g">>

Texts ==
  {JNull, JStr(<<>>), JStr(TXT_fever), JStr(TXT_diarrhea_fever), JStr(TXT_vomiting),
   JStr(TXT_pain_nausea), JStr(TXT_diarrhea_jaundice), JStr(TXT_stomach_pain),
   JStr(TXT_cough)}

\* reports given to score_and_infer alone: every measurement at its bound,
\* just beyond it, absent or malformed
ScoreReports ==
  [location : {JStr(LOC_A)},
   symptoms : Texts,
   pH : {JNull, JNum(6499), JNum(6500), JNum(8500), JNum(8501)},
   turbidity : {JNull, JNum(1000), JNum(3000), JNum(5000), JNum(5001),
                JNum(30000), JStr(STR_40)},
   bacteria_count : {JNum(0), JNum(5000)},
   coliforms : {JStr(<<>>), JNum(1000)},
   hpc : {JNum(500000), JNum(500001)},
   arsenic : {JNum(10), JNum(11)},
   fluoride : {JStr(STR_abc), JNum(1500), JNum(1501)},
   nitrate : {JNum(45000), JNum(45001)},
   lead : {JStr(STR_null), JNum(11)}]

\* how many water-quality rules fire for a report
violations(r) ==
    (IF pH_fires(pH_of(r)) THEN 1 ELSE 0)
  + (IF turbidity_branch(turb_of(r)) > 0 THEN 1 ELSE 0)
  + (IF ecoli_fires(ecoli_of(r)) THEN 1 ELSE 0)
  + (IF coliforms_fires(coliforms_of(r)) THEN 1 ELSE 0)
  + (IF hpc_fires(hpc_of(r)) THEN 1 ELSE 0)
  + (IF arsenic_fires(arsenic_of(r)) THEN 1 ELSE 0)
  + (IF fluoride_fires(fluoride_of(r)) THEN 1 ELSE 0)
  + (IF nitrate_fires(nitrate_of(r)) THEN 1 ELSE 0)
  + (IF lead_fires(lead_of(r)) THEN 1 ELSE 0)

\* reports compared in pairs: at most MaxViolations measurements out of range
PairReports ==
  {r \in [location : {JNull},
          symptoms : {JNull, JStr(TXT_diarrhea_jaundice), JStr(TXT_all)},
          pH : {JNull, JNum(6499)},
          turbidity : {JNull, JNum(3000), JNum(5001), JNum(30001)},
          bacteria_count : {JNull, JNum(5000)},
          coliforms : {JNull, JNum(1000)},
          hpc : {JNull, JNum(500001)},
          arsenic : {JNull, JNum(11)},
          fluoride : {JNull, JNum(1501)},
          nitrate : {JNull, JNum(45001)},
          lead : {JNull, JNum(11)}] : violations(r) <= MaxViolations}

\* a report with every measurement absent
blank ==
  [location |-> JNull, symptoms |-> JNull, pH |-> JNull, turbidity |-> JNull,
   bacteria_count |-> JNull, coliforms |-> JNull, hpc |-> JNull,
   arsenic |-> JNull, fluoride |-> JNull, nitrate |-> JNull, lead |-> JNull]

\* the kinds of report posted to /analyze
Profiles ==
  { [blank EXCEPT !.turbidity = JNum(3000)],
    [blank EXCEPT !.symptoms = JStr(TXT_three)],
    [blank EXCEPT !.bacteria_count = JNum(5000)],
    [blank EXCEPT !.lead = JNum(11), !.symptoms = JStr(TXT_cough)],
    [blank EXCEPT !.fluoride = JNum(1501), !.coliforms = JNum(1000)],
    [blank EXCEPT !.pH = JNum(9000), !.turbidity = JStr(STR_40),
                  !.hpc = JNum(600000), !.fluoride = JNum(2000),
                  !.nitrate = JNum(50000), !.lead = JNum(20)] }

AnalyzeReports ==
  {[p EXCEPT !.location = l] : p \in Profiles, l \in {JNull, JStr(LOC_A), JStr(LOC_b)}}
    \cup {[blank EXCEPT !.location = JStr(<<>>)]}

-----------------------------------------------------------------------------
(* The state machines.                                                     *)
NoReport == blank
NoResult ==
  [location |-> <<>>, score |-> 0, risk_level |-> "Low",
   issues_found |-> <<>>, likely_diseases |-> <<>>]
NoBody == [kind |-> "null", items |-> <<>>]
NoResponse == [status |-> 0]

\* score_and_infer applied to one report
InitScore ==
  /\ pc = "input"
  /\ report \in ScoreReports
  /\ result = NoResult
  /\ pair = <<NoReport, NoReport>>
  /\ pairResult = <<NoResult, NoResult>>
  /\ body = NoBody
  /\ response = NoResponse

Score ==
  /\ pc = "input"
  /\ result' = score_and_infer(report)
  /\ pc' = "scored"
  /\ UNCHANGED <<report, pair, pairResult, body, response>>

NextScore == Score

SpecScore == InitScore /\ [][NextScore]_vars

\* score_and_infer applied to two reports
InitPair ==
  /\ pc = "input2"
  /\ pair \in PairReports \X PairReports
  /\ pairResult = <<NoResult, NoResult>>
  /\ report = NoReport
  /\ result = NoResult
  /\ body = NoBody
  /\ response = NoResponse

ScorePair ==
  /\ pc = "input2"
  /\ pairResult' = <<score_and_infer(pair[1]), score_and_infer(pair[2])>>
  /\ pc' = "scored2"
  /\ UNCHANGED <<report, result, pair, body, response>>

NextPair == ScorePair

SpecPair == InitPair /\ [][NextPair]_vars

\* POST /analyze: the request body (a JSON array being filled with reports,
\* null, or an object), then the handler
Init ==
  /\ pc = "request"
  /\ body \in {[kind |-> k, items |-> <<>>] : k \in {"array", "null", "object"}}
  /\ response = NoResponse
  /\ report = NoReport
  /\ result = NoResult
  /\ pair = <<NoReport, NoReport>>
  /\ pairResult = <<NoResult, NoResult>>

AddReport(r) ==
  /\ pc = "request"
  /\ body.kind = "array"
  /\ Len(body.items) < MaxReports
  /\ body' = [body EXCEPT !.items = Append(@, r)]
  /\ UNCHANGED <<pc, response, report, result, pair, pairResult>>

Analyze ==
  /\ pc = "request"
  /\ response' = analyze(body)
  /\ pc' = "responded"
  /\ UNCHANGED <<body, report, result, pair, pairResult>>

Next ==
  \/ \E r \in AnalyzeReports : AddReport(r)
  \/ Analyze

Spec == Init /\ [][Next]_vars

-----------------------------------------------------------------------------
(* Properties of score_and_infer (SpecScore).                              *)
scored == pc = "scored"

\* how many times d occurs in list
occurrences(d, list) == Cardinality({i \in 1..Len(list) : list[i] = d})

\* the first position of d in list
first_index(d, list) ==
  CHOOSE i \in 1..Len(list) : list[i] = d /\ \A j \in 1..(i - 1) : list[j] # d

\* C1: the risk_level returned by score_and_infer is determined by the
\* returned score alone: High exactly when score >= 6, Medium exactly when
\* 3 <= score <= 5, Low exactly when score <= 2.
C1_RiskFromScore ==
  scored =>
    /\ result.risk_level \in {"High", "Medium", "Low"}
    /\ result.risk_level = "High" <=> result.score >= 6
    /\ result.risk_level = "Medium" <=> (result.score >= 3 /\ result.score <= 5)
    /\ result.risk_level = "Low" <=> result.score <= 2

C1_Witness ==
  scored /\ result.score = 6 /\ result.risk_level = "High"

C1_WitnessMedium ==
  scored /\ result.score = 5 /\ result.risk_level = "Medium"

\* C2: likely_diseases contains no string twice, holds exactly the diseases
\* the rules emitted, and lists them in the order of their first emission.
C2_DiseasesUniqueInOrder ==
  scored =>
    LET ld == result.likely_diseases
        emitted == all_rules(report).diseases
    IN /\ \A i, j \in 1..Len(ld) : i # j => ld[i] # ld[j]
       /\ {ld[i] : i \in 1..Len(ld)} = {emitted[i] : i \in 1..Len(emitted)}
       /\ \A i, j \in 1..Len(ld) :
            i < j => first_index(ld[i], emitted) < first_index(ld[j], emitted)

C2_Witness ==
  /\ scored
  /\ diarrhea_fires(stext_of(report)) /\ jaundice_fires(stext_of(report))
  /\ ecoli_of(report) > 0 /\ coliforms_of(report) > 0
  /\ Len(result.likely_diseases) >= 5

\* the precondition of C3: empty or absent symptom text and every
\* measurement at or within its safe bound
all_safe(r) ==
  /\ or_str(r.symptoms, <<>>) = <<>>
  /\ pH_of(r) >= pH_min /\ pH_of(r) <= pH_max
  /\ turb_of(r) <= turbidity_max
  /\ ecoli_of(r) = 0
  /\ coliforms_of(r) = 0
  /\ hpc_of(r) <= hpc_max
  /\ arsenic_of(r) <= arsenic_max
  /\ fluoride_of(r) <= fluoride_max
  /\ nitrate_of(r) <= nitrate_max
  /\ lead_of(r) <= lead_max

\* C3 as stated: with no symptom text and every measurement within its safe
\* bound (turbidity up to 5.0), score = 0, risk_level = Low, issues_found = []
\* and likely_diseases = [].
C3_AsStated ==
  (scored /\ all_safe(report)) =>
    /\ result.score = 0
    /\ result.risk_level = "Low"
    /\ result.issues_found = <<>>
    /\ result.likely_diseases = <<>>

\* C3 (amended): with no symptom text and every measurement within its safe
\* bound, score = 0, risk_level = Low and likely_diseases = []; issues_found
\* is [] when turbidity is at most the 1.0 ideal and is
\* ["Turbidity above ideal"] when it lies above 1.0 (up to the 5.0 maximum).
C3_SafeReport ==
  (scored /\ all_safe(report)) =>
    /\ result.score = 0
    /\ result.risk_level = "Low"
    /\ result.likely_diseases = <<>>
    /\ result.issues_found =
         IF turb_of(report) <= turbidity_ideal THEN <<>> ELSE <<ISS_turb_ideal>>

C3_Witness ==
  /\ scored /\ all_safe(report)
  /\ pH_of(report) = pH_min /\ turb_of(report) = turbidity_max
  /\ arsenic_of(report) = arsenic_max /\ hpc_of(report) = hpc_max
  /\ result.issues_found = <<ISS_turb_ideal>>

turbidity_issues == {ISS_turb_very_high, ISS_turb_high, ISS_turb_ideal}

\* C4: at most one turbidity issue is reported, the one of the first matching
\* branch (> 30, else > 5.0, else > 1.0); a turbidity above 30 adds exactly 4
\* to the score the same report gets without turbidity.
C4_TurbidityExclusive ==
  scored =>
    LET iss == result.issues_found
        found == {i \in 1..Len(iss) : iss[i] \in turbidity_issues}
        turb == turb_of(report)
        expected == IF turb > 30000 THEN {ISS_turb_very_high}
                    ELSE IF turb > 5000 THEN {ISS_turb_high}
                    ELSE IF turb > 1000 THEN {ISS_turb_ideal}
                    ELSE {}
    IN /\ Cardinality(found) <= 1
       /\ {iss[i] : i \in found} = expected
       /\ turb > 30000 =>
            result.score = score_and_infer([report EXCEPT !.turbidity = JNull]).score + 4

C4_Witness ==
  /\ scored
  /\ turb_of(report) > 30000
  /\ \E i \in 1..Len(result.issues_found) : result.issues_found[i] = ISS_turb_very_high

\* C5: with "diarrhea" in the lower-cased symptom text and E. coli > 0 or
\* coliforms > 0 or turbidity > 5.0, likely_diseases has Cholera, Typhoid and
\* Gastroenteritis once each (and Diarrhea once when E. coli > 0); with
\* "jaundice" and coliforms > 0 or E. coli > 0 it has Hepatitis A once; the
\* coupling rules leave the score of the threshold rules unchanged.
C5_Coupling ==
  scored =>
    LET ld == result.likely_diseases
        stext == lower(or_str(report.symptoms, <<>>))
        ecoli == ecoli_of(report)
        coliforms == coliforms_of(report)
        turb == turb_of(report)
    IN /\ (contains(KW_diarrhea, stext) /\ (ecoli > 0 \/ coliforms > 0 \/ turb > 5000)) =>
            /\ occurrences("Cholera", ld) = 1
            /\ occurrences("Typhoid", ld) = 1
            /\ occurrences("Gastroenteritis", ld) = 1
            /\ ecoli > 0 => occurrences("Diarrhea", ld) = 1
       /\ (contains(KW_jaundice, stext) /\ (coliforms > 0 \/ ecoli > 0)) =>
            occurrences("Hepatitis A", ld) = 1
       /\ result.score = threshold_rules(report).score

C5_Witness ==
  /\ scored
  /\ diarrhea_fires(stext_of(report))
  /\ ecoli_of(report) = 0 /\ coliforms_of(report) = 0 /\ turb_of(report) > 5000
  /\ occurrences("Gastroenteritis", result.likely_diseases) = 1

-----------------------------------------------------------------------------
(* Monotonicity of the score (SpecPair).                                   *)

\* every symptom rule and water-quality rule that fires for a also fires for
\* b, the turbidity branch of b being the same or a higher one
fires_subset(a, b) ==
  /\ fever_fires(stext_of(a)) => fever_fires(stext_of(b))
  /\ diarrhea_fires(stext_of(a)) => diarrhea_fires(stext_of(b))
  /\ vomit_fires(stext_of(a)) => vomit_fires(stext_of(b))
  /\ jaundice_fires(stext_of(a)) => jaundice_fires(stext_of(b))
  /\ pain_fires(stext_of(a)) => pain_fires(stext_of(b))
  /\ pH_fires(pH_of(a)) => pH_fires(pH_of(b))
  /\ turbidity_branch(turb_of(a)) <= turbidity_branch(turb_of(b))
  /\ ecoli_fires(ecoli_of(a)) => ecoli_fires(ecoli_of(b))
  /\ coliforms_fires(coliforms_of(a)) => coliforms_fires(coliforms_of(b))
  /\ hpc_fires(hpc_of(a)) => hpc_fires(hpc_of(b))
  /\ arsenic_fires(arsenic_of(a)) => arsenic_fires(arsenic_of(b))
  /\ fluoride_fires(fluoride_of(a)) => fluoride_fires(fluoride_of(b))
  /\ nitrate_fires(nitrate_of(a)) => nitrate_fires(nitrate_of(b))
  /\ lead_fires(lead_of(a)) => lead_fires(lead_of(b))

\* C10: the score is never negative, and a report for which every rule of
\* another report fires (with the same or a higher turbidity branch) scores
\* at least as much as that other report.
C10_ScoreMonotone ==
  pc = "scored2" =>
    /\ pairResult[1].score >= 0 /\ pairResult[2].score >= 0
    /\ fires_subset(pair[1], pair[2]) => pairResult[2].score >= pairResult[1].score

C10_Witness ==
  /\ pc = "scored2"
  /\ fires_subset(pair[1], pair[2]) /\ ~fires_subset(pair[2], pair[1])
  /\ turbidity_branch(turb_of(pair[1])) = 2 /\ turbidity_branch(turb_of(pair[2])) = 3
  /\ pairResult[2].score > pairResult[1].score

-----------------------------------------------------------------------------
(* Properties of /analyze (Spec).                                          *)
answered == pc = "responded" /\ response.status = 200

Tiers == {"High", "Medium", "Low"}

\* the location a report belongs to: its location field, or "Unknown" when
\* the field is absent or empty
location_or_unknown(r) ==
  IF r.location.tag = "string" /\ r.location.s # <<>> THEN r.location.s ELSE STR_Unknown

\* C6: overall_risk is "No Data" for no reports; for N reports it is "High"
\* when High/N >= 0.33, otherwise "Medium" when Medium/N >= 0.33, otherwise
\* "Low"; 1 High report out of 3 gives "High".
C6_OverallRisk ==
  answered =>
    LET pr == response.per_report
        N == Len(pr)
        H == Cardinality({i \in 1..N : pr[i].risk_level = "High"})
        M == Cardinality({i \in 1..N : pr[i].risk_level = "Medium"})
    IN /\ response.overall_risk =
            IF N = 0 THEN "No Data"
            ELSE IF 100 * H >= 33 * N THEN "High"
            ELSE IF 100 * M >= 33 * N THEN "Medium"
            ELSE "Low"
       /\ (N = 3 /\ H = 1) => response.overall_risk = "High"

C6_Witness ==
  /\ answered
  /\ Len(response.per_report) = 3
  /\ Cardinality({i \in 1..3 : response.per_report[i].risk_level = "High"}) = 1
  /\ Cardinality({i \in 1..3 : response.per_report[i].risk_level = "Medium"}) = 2
  /\ response.overall_risk = "High"

RECURSIVE sum_over(_, _)
sum_over(f, S) ==
  IF S = {} THEN 0
  ELSE LET x == CHOOSE y \in S : TRUE IN f[x] + sum_over(f, S \ {x})

\* C7: every report is counted under exactly one location: risk_counts[T] of
\* location L is the number of reports of L scored T, tiers without a report
\* are absent, and all the counts together are the number of reports.
C7_RiskCounts ==
  answered =>
    LET items == body.items
        pr == response.per_report
        ls == response.location_summary
        n(L, T) == Cardinality({i \in 1..Len(items) :
                       location_or_unknown(items[i]) = L /\ pr[i].risk_level = T})
        total == [L \in DOMAIN ls |->
                    sum_over(ls[L].risk_counts, DOMAIN ls[L].risk_counts)]
    IN /\ Len(pr) = Len(items)
       /\ \A i \in 1..Len(items) : location_or_unknown(items[i]) \in DOMAIN ls
       /\ \A L \in DOMAIN ls :
            /\ DOMAIN ls[L].risk_counts \subseteq Tiers
            /\ \A T \in Tiers :
                 IF n(L, T) = 0 THEN T \notin DOMAIN ls[L].risk_counts
                 ELSE T \in DOMAIN ls[L].risk_counts /\ ls[L].risk_counts[T] = n(L, T)
       /\ sum_over(total, DOMAIN ls) = Len(items)

C7_Witness ==
  /\ answered
  /\ LOC_A \in DOMAIN response.location_summary
  /\ response.location_summary[LOC_A].risk_counts = ("High" :> 2) @@ ("Low" :> 1)

C7_WitnessUnknown ==
  /\ answered
  /\ \E i, j \in 1..Len(body.items) :
       body.items[i].location = JNull /\ body.items[j].location = JStr(<<>>)
  /\ STR_Unknown \in DOMAIN response.location_summary
  /\ sum_over(response.location_summary[STR_Unknown].risk_counts,
              DOMAIN response.location_summary[STR_Unknown].risk_counts) = 3

high_count(summary) ==
  IF "High" \in DOMAIN summary.risk_counts THEN summary.risk_counts["High"] ELSE 0

\* some entry of top_issues equals, ignoring case, a severe issue
has_severe_issue(summary) ==
  \E i \in 1..Len(summary.top_issues) :
    \E f \in {ISS_ecoli, ISS_arsenic, ISS_lead, ISS_coliforms} :
      lower(summary.top_issues[i]) = lower(f)

\* C8: a location is in high_risk_locations exactly when its risk_counts has
\* High >= 2 or one of its top_issues is, ignoring case, a severe issue; the
\* list is sorted and has no location twice.
C8_HighRiskLocations ==
  answered =>
    LET hrl == response.high_risk_locations
        ls == response.location_summary
    IN /\ \A i \in 1..Len(hrl) : hrl[i] \in DOMAIN ls
       /\ \A loc \in DOMAIN ls :
            in_list(loc, hrl) <=> (high_count(ls[loc]) >= 2 \/ has_severe_issue(ls[loc]))
       /\ \A i, j \in 1..Len(hrl) : i < j => str_lt(hrl[i], hrl[j])

C8_Witness ==
  /\ answered
  /\ Len(response.high_risk_locations) = 2
  /\ \E loc \in DOMAIN response.location_summary :
       /\ in_list(loc, response.high_risk_locations)
       /\ high_count(response.location_summary[loc]) < 2
  /\ \E loc \in DOMAIN response.location_summary :
       /\ in_list(loc, response.high_risk_locations)
       /\ ~has_severe_issue(response.location_summary[loc])

\* the values of field (issues_found or likely_diseases) of the reports of
\* location loc, in report order
RECURSIVE emitted_at(_, _, _)
emitted_at(pr, loc, field) ==
  IF pr = <<>> THEN <<>>
  ELSE (IF Head(pr).location = loc THEN Head(pr)[field] ELSE <<>>)
         \o emitted_at(Tail(pr), loc, field)

\* a ranks before b: more frequent, or as frequent and encountered first
ranks_before(a, b, em) ==
  \/ occurrences(a, em) > occurrences(b, em)
  \/ /\ occurrences(a, em) = occurrences(b, em)
     /\ first_index(a, em) < first_index(b, em)

top_five_of(top, em) ==
  LET values == {em[i] : i \in 1..Len(em)}
  IN /\ Len(top) <= 5
     /\ Len(top) = IF Cardinality(values) > 5 THEN 5 ELSE Cardinality(values)
     /\ \A i \in 1..Len(top) : top[i] \in values
     /\ \A i, j \in 1..Len(top) : i < j => ranks_before(top[i], top[j], em)
     /\ \A v \in values :
          in_list(v, top) \/ \A i \in 1..Len(top) : ranks_before(top[i], v, em)

\* C9: top_issues and likely_diseases_top of every location hold at most 5
\* entries, the most frequent values of the location's reports in descending
\* order of frequency, equal frequencies ordered and cut off by first
\* encounter.
C9_TopFive ==
  answered =>
    \A loc \in DOMAIN response.location_summary :
      /\ top_five_of(response.location_summary[loc].top_issues,
                     emitted_at(response.per_report, loc, "issues_found"))
      /\ top_five_of(response.location_summary[loc].likely_diseases_top,
                     emitted_at(response.per_report, loc, "likely_diseases"))

distinct_values(em) == Cardinality({em[i] : i \in 1..Len(em)})

C9_Witness ==
  /\ answered
  /\ \E loc \in DOMAIN response.location_summary :
       LET em == emitted_at(response.per_report, loc, "issues_found")
           top == response.location_summary[loc].top_issues
       IN /\ distinct_values(em) > 5
          /\ Len(top) = 5
          /\ top[1] # em[1]
          /\ \E i \in 1..Len(em) :
               ~in_list(em[i], top) /\ occurrences(em[i], em) = occurrences(top[5], em)
====
